---------------------------- MODULE Spec2Model ----------------------------
(***************************************************************************)
(* A model of telejson (src/src/index.js): the replacer driven by          *)
(* JSON.stringify, the reviver driven by JSON.parse, the comment-stripping *)
(* source normalizer and the isJSON heuristic.                             *)
(*                                                                         *)
(* Strings are sequences of one-character strings, so that prefixes,       *)
(* dotted paths, joins and splits are computed and not assumed.            *)
(***************************************************************************)
EXTENDS Integers, Sequences, FiniteSets, TLC

(***************************************************************************)
(* Bounds of the model.                                                    *)
(***************************************************************************)
MaxCodeLen == 5      \* longest source text given to cleanCode
MaxJsonLen == 3      \* longest text given to isJSON

(***************************************************************************)
(* Character strings.                                                      *)
(***************************************************************************)
NoChar == "none"     \* code[i] outside the string: undefined
Backtick == "backtick"   \* the character U+0060, which a TLA+ string cannot hold

At(s, p) == IF p >= 1 /\ p <= Len(s) THEN s[p] ELSE NoChar

StartsWith(s, p) == Len(s) >= Len(p) /\ SubSeq(s, 1, Len(p)) = p

\* String.prototype.indexOf, 1-based; 0 when absent
IndexOf(s, p) ==
  LET hits == {i \in 1..(Len(s) - Len(p) + 1) : SubSeq(s, i, i + Len(p) - 1) = p}
  IN  IF hits = {} THEN 0 ELSE CHOOSE i \in hits : \A j \in hits : i <= j

Includes(s, p) == IndexOf(s, p) # 0

\* String.prototype.replace with a string pattern: the first occurrence only
ReplaceFirst(s, p, r) ==
  LET i == IndexOf(s, p)
  IN  IF i = 0 THEN s
      ELSE SubSeq(s, 1, i - 1) \o r \o SubSeq(s, i + Len(p), Len(s))

RECURSIVE Join(_, _)
Join(parts, sep) ==
  IF Len(parts) = 0 THEN <<>>
  ELSE IF Len(parts) = 1 THEN parts[1]
  ELSE parts[1] \o sep \o Join(Tail(parts), sep)

RECURSIVE Split(_, _)
Split(s, c) ==
  LET i == IndexOf(s, <<c>>)
  IN  IF i = 0 THEN <<s>>
      ELSE <<SubSeq(s, 1, i - 1)>> \o Split(SubSeq(s, i + 1, Len(s)), c)

IsSpace(c) == c \in {" ", "\n", "\t", "\r"}
IsLineTerminator(c) == c \in {"\n", "\r"}
IsDigit(c) == c \in {"0", "1", "2", "3", "4", "5", "6", "7", "8", "9"}

\* the characters of s at the positions in keep, in their order
Keep(s, keep) ==
  [n \in 1..Cardinality(keep) |->
     s[CHOOSE i \in keep : Cardinality({j \in keep : j <= i}) = n]]

\* String.prototype.trim
Trim(s) ==
  LET solid == {i \in 1..Len(s) : ~IsSpace(s[i])}
  IN  Keep(s, {i \in 1..Len(s) : \E j, k \in solid : j <= i /\ i <= k})

\* all strings over alphabet of length at most n
RECURSIVE StringsUpTo(_, _)
StringsUpTo(alphabet, n) ==
  IF n = 0 THEN {<<>>}
  ELSE LET shorter == StringsUpTo(alphabet, n - 1)
       IN  shorter \cup {Append(s, c) : s \in shorter, c \in alphabet}

(***************************************************************************)
(* removeCodeComments: one left-to-right scan.  st.q is inQuoteChar (NoChar *)
(* for null); a character is kept when, after the mode update for it,      *)
(* neither comment flag is set.                                            *)
(***************************************************************************)
ScanInit ==
  [q |-> NoChar, blk |-> FALSE, line |-> FALSE, re |-> FALSE, out |-> <<>>]

ScanStep(code, p, st) ==
  LET c    == At(code, p)
      idle == st.q = NoChar /\ ~st.blk /\ ~st.line /\ ~st.re
      m    == IF idle
              THEN IF c \in {"\"", "'", Backtick} THEN [st EXCEPT !.q = c]
                   ELSE IF c = "/" /\ At(code, p + 1) = "*" THEN [st EXCEPT !.blk = TRUE]
                   ELSE IF c = "/" /\ At(code, p + 1) = "/" THEN [st EXCEPT !.line = TRUE]
                   ELSE IF c = "/" /\ At(code, p + 1) # "/" THEN [st EXCEPT !.re = TRUE]
                   ELSE st
              ELSE [st EXCEPT
                     !.q    = IF st.q # NoChar
                                 /\ ((c = st.q /\ At(code, p - 1) # "\\")
                                     \/ (c = "\n" /\ st.q # Backtick))
                              THEN NoChar ELSE st.q,
                     !.re   = IF st.re /\ ((c = "/" /\ At(code, p - 1) # "\\") \/ c = "\n")
                              THEN FALSE ELSE st.re,
                     !.blk  = IF st.blk /\ At(code, p - 1) = "/" /\ At(code, p - 2) = "*"
                              THEN FALSE ELSE st.blk,
                     !.line = IF st.line /\ c = "\n" THEN FALSE ELSE st.line]
  IN  IF ~m.blk /\ ~m.line THEN [m EXCEPT !.out = Append(m.out, c)] ELSE m

\* the loop of lines 18-50 over the characters lo..hi, entered with st.  The
\* range is halved, and the first half compared, so that TLC evaluates the
\* scan in order and without deep recursion.
RECURSIVE ScanFrom(_, _, _, _)
ScanFrom(code, lo, hi, st) ==
  IF lo > hi THEN st
  ELSE IF lo = hi THEN ScanStep(code, lo, st)
  ELSE LET mid  == (lo + hi) \div 2
           half == ScanFrom(code, lo, mid, st)
       IN  IF half = st THEN ScanFrom(code, mid + 1, hi, st)
           ELSE ScanFrom(code, mid + 1, hi, half)

removeCodeComments(code) == ScanFrom(code, 1, Len(code), ScanInit).out

\* .replace(/\n\s*/g, ''): every newline and the whitespace run after it
StripIndents(s) ==
  Keep(s, {i \in 1..Len(s) :
             ~\E j \in 1..i : s[j] = "\n" /\ \A k \in j..i : IsSpace(s[k])})

cleanCode(code) == Trim(StripIndents(removeCodeComments(code)))

(***************************************************************************)
(* isJSON: input.match(/^[\[\{\"\}].*[\]\}\"]$/), read for its truthiness. *)
(* The dot matches no line terminator; ^ and $ are the ends of the input.  *)
(***************************************************************************)
isJSON(input) ==
  /\ Len(input) >= 2
  /\ input[1] \in {"[", "{", "\"", "}"}
  /\ input[Len(input)] \in {"]", "}", "\""}
  /\ \A i \in 2..(Len(input) - 1) : ~IsLineTerminator(input[i])

(***************************************************************************)
(* Literal strings of the source.                                          *)
(***************************************************************************)
RootPath == <<"r", "o", "o", "t">>
RootDot == <<"r", "o", "o", "t", ".">>
CtorKey == <<"_", "c", "o", "n", "s", "t", "r", "u", "c", "t", "o", "r", "-", "n", "a", "m", "e", "_">>
ObjectName == <<"O", "b", "j", "e", "c", "t">>
ArrayName == <<"A", "r", "r", "a", "y">>
TagRegexp == <<"_", "r", "e", "g", "e", "x", "p", "_">>
TagFunction == <<"_", "f", "u", "n", "c", "t", "i", "o", "n", "_">>
TagSymbol == <<"_", "s", "y", "m", "b", "o", "l", "_">>
TagDate == <<"_", "d", "a", "t", "e", "_">>
TagDuplicate == <<"_", "d", "u", "p", "l", "i", "c", "a", "t", "e", "_">>
TagUndefined == <<"_", "u", "n", "d", "e", "f", "i", "n", "e", "d", "_">>
TagNegInfinity == <<"_", "-", "I", "n", "f", "i", "n", "i", "t", "y", "_">>
TagInfinity == <<"_", "I", "n", "f", "i", "n", "i", "t", "y", "_">>
TagNaN == <<"_", "N", "a", "N", "_">>
SummaryObject == <<"[", "O", "b", "j", "e", "c", "t", "]">>
SummaryArrayOpen == <<"[", "A", "r", "r", "a", "y", "(">>
SummaryArrayClose == <<")", "]">>
NativeCode == <<"[", "n", "a", "t", "i", "v", "e", " ", "c", "o", "d", "e", "]">>
WebpackImport == <<"W", "E", "B", "P", "A", "C", "K", "_", "I", "M", "P", "O", "R", "T", "E", "D", "_", "M", "O", "D", "U", "L", "E">>
\* (() => {}).toString()
NoopSource == <<"(", ")", " ", "=", ">", " ", "{", "}">>
\* Symbol.prototype.toString gives 'Symbol(' description ')'
SymbolOpen == <<"S", "y", "m", "b", "o", "l", "(">>
\* String(plain object)
ObjectObject == <<"[", "o", "b", "j", "e", "c", "t", " ", "O", "b", "j", "e", "c", "t", "]">>

Digits == <<"0", "1", "2", "3", "4", "5", "6", "7", "8", "9">>

\* Number.prototype.toString for a non-negative integer
RECURSIVE NumberToString(_)
NumberToString(n) ==
  IF n < 10 THEN <<Digits[n + 1]>>
  ELSE NumberToString(n \div 10) \o <<Digits[(n % 10) + 1]>>

\* dateFormat = /^\d{4}-\d{2}-\d{2}T\d{2}:\d{2}:\d{2}(\.\d{3})?Z$/
\* a "d" of a shape stands for \d, every other character for itself
DateShapeSeconds ==
  <<"d", "d", "d", "d", "-", "d", "d", "-", "d", "d", "T",
    "d", "d", ":", "d", "d", ":", "d", "d", "Z">>
DateShapeMillis ==
  <<"d", "d", "d", "d", "-", "d", "d", "-", "d", "d", "T",
    "d", "d", ":", "d", "d", ":", "d", "d", ".", "d", "d", "d", "Z">>

MatchesShape(s, shape) ==
  /\ Len(s) = Len(shape)
  /\ \A i \in 1..Len(s) : IF shape[i] = "d" THEN IsDigit(s[i]) ELSE s[i] = shape[i]

dateFormat(s) == MatchesShape(s, DateShapeSeconds) \/ MatchesShape(s, DateShapeMillis)

(***************************************************************************)
(* Values.  Every value is a record of one shape: t is the kind, n a       *)
(* number or a heap address, s and x strings.  A "ref" is an array or an   *)
(* object of a heap and is compared by its address: reference identity.    *)
(***************************************************************************)
Val(t, n, s, x) == [t |-> t, n |-> n, s |-> s, x |-> x]

Undefined == Val("undefined", 0, <<>>, <<>>)
Null == Val("null", 0, <<>>, <<>>)
Bool(b) == Val("boolean", IF b THEN 1 ELSE 0, <<>>, <<>>)
Num(n) == Val("number", n, <<>>, <<>>)            \* a finite number
NaN == Val("NaN", 0, <<>>, <<>>)
Infinity == Val("Infinity", 0, <<>>, <<>>)
NegInfinity == Val("-Infinity", 0, <<>>, <<>>)
Str(s) == Val("string", 0, s, <<>>)
Ref(i) == Val("ref", i, <<>>, <<>>)
Fn(name, source) == Val("function", 0, source, name)
RegExp(flags, source) == Val("regexp", 0, source, flags)
Sym(description) == Val("symbol", 0, description, <<>>)
DateOf(iso) == Val("date", 0, iso, <<>>)
\* the callable revive builds: toString() gives s, name gives x
Revived(name, source) == Val("revived", 0, source, name)
\* a property that is not there (never written, or deleted)
Absent == Val("absent", 0, <<>>, <<>>)
\* the holder {"": value} of the root call of JSON.stringify and JSON.parse
Wrapper == Val("wrapper", 0, <<>>, <<>>)

IsNumber(v) == v.t \in {"number", "NaN", "Infinity", "-Infinity"}

\* own enumerable properties, in insertion order: a sequence of [k, v]
FieldIndex(fields, k) ==
  LET hits == {i \in 1..Len(fields) : fields[i].k = k /\ fields[i].v # Absent}
  IN  IF hits = {} THEN 0 ELSE CHOOSE i \in hits : TRUE

HasKey(fields, k) == FieldIndex(fields, k) # 0

\* object[k]: undefined when the property is absent
GetField(fields, k) ==
  IF HasKey(fields, k) THEN fields[FieldIndex(fields, k)].v ELSE Undefined

\* delete object[k]
DeleteField(fields, k) ==
  IF HasKey(fields, k) THEN [fields EXCEPT ![FieldIndex(fields, k)].v = Absent]
  ELSE fields

\* object[k] = v: in place when the key exists, appended otherwise
SetField(fields, k, v) ==
  IF HasKey(fields, k) THEN [fields EXCEPT ![FieldIndex(fields, k)].v = v]
  ELSE Append(fields, [k |-> k, v |-> v])

(***************************************************************************)
(* State.                                                                  *)
(*   pc         where the caller is: "idle", "stringify", "text", "parse", *)
(*              "done", "threw", "called"; "normalize", "strip" and        *)
(*              "isJSON" for the string functions                          *)
(*   data, heap the caller's value: data is the root, heap its containers  *)
(*   depth      the depth the replacer was made with                       *)
(*   objects, stack, keys   the replacer's closure                         *)
(*   holders    JSON.stringify's recursion: the containers being written   *)
(*   enc, text  the tree JSON.stringify has written, and its root          *)
(*   refs, root the reviver's closure                                      *)
(*   walk       JSON.parse's recursion over the parsed tree                *)
(*   dec, result  the parsed containers (mutated by revive), parse's value *)
(*   lastCall   the last callback call: function, key, value, result       *)
(*   invoked    the last call of a revived function                        *)
(*   source, normal, verdict   a text, its normalizations, isJSON's answer *)
(*   met        the containers replace was called with in this encode, in  *)
(*              order, each with the keys from the root to that call       *)
(*   earlier    the graph an earlier parse returned, once the caller has   *)
(*              given it to stringify                                      *)
(***************************************************************************)
VARIABLES pc, data, heap, depth, objects, stack, keys, holders, enc, text,
          refs, root, walk, dec, result, lastCall, invoked,
          source, normal, verdict, earlier, met

vars == <<pc, data, heap, depth, objects, stack, keys, holders, enc, text,
          refs, root, walk, dec, result, lastCall, invoked,
          source, normal, verdict, earlier, met>>

callerVars == <<data, heap, earlier>>
replacerVars == <<depth, objects, stack, keys>>
stringifyVars == <<holders, enc, text, met>>
reviverVars == <<refs, root>>
parseVars == <<walk, dec, result>>
textVars == <<source, normal, verdict>>

(***************************************************************************)
(* replacer (lines 61-160).                                                *)
(***************************************************************************)
\* while (stack.length && this !== stack[0]) { stack.shift(); keys.pop(); }
\* stack[1] is the source's stack[0]; the number of entries shifted off
PopCount(stk, this) ==
  LET hits == {i \in 1..Len(stk) : stk[i] = this}
  IN  IF hits = {} THEN Len(stk)
      ELSE (CHOOSE i \in hits : \A j \in hits : i <= j) - 1

\* objects.find(o => o.value === value): its index, 0 when undefined
FindObject(objs, value) ==
  LET hits == {i \in 1..Len(objs) : objs[i].value = value}
  IN  IF hits = {} THEN 0 ELSE CHOOSE i \in hits : \A j \in hits : i <= j

\* the depth test with > in place of >=
DepthReachedStrict(stk, d) == Len(stk) > d

\* stack.length >= depth
DepthReached(stk, d) == Len(stk) >= d

IsArray(h, v) == v.t = "ref" /\ h[v.n].kind = "arr"

\* isobject: val != null && typeof val === 'object' && !Array.isArray(val)
IsObject(h, v) == v.t \in {"regexp", "date"} \/ (v.t = "ref" /\ h[v.n].kind = "obj")

\* lines 135-141: the value gets the constructor-name marker
HasNamedConstructor(h, v) ==
  /\ v.t = "ref"
  /\ h[v.n].kind = "obj"
  /\ h[v.n].ctor # <<>>
  /\ h[v.n].ctor # ObjectName

\* the marker never attached, as if Object.assign threw on every object
AttachNothing(h, v) == h

\* lines 142-148: Object.assign throws on a frozen object, and the throw is swallowed
AttachConstructorName(h, v) ==
  IF HasNamedConstructor(h, v) /\ ~h[v.n].frozen
  THEN [h EXCEPT ![v.n].fields = SetField(@, CtorKey, Str(h[v.n].ctor))]
  ELSE h

\* lines 86-94
FunctionTag(value) ==
  LET stringified == cleanCode(value.s)
  IN  IF ~(Includes(stringified, NativeCode) \/ Includes(stringified, WebpackImport))
      THEN TagFunction \o value.x \o <<"|">> \o stringified
      ELSE TagFunction \o value.x \o <<"|">> \o NoopSource

\* line 97: value.toString().slice(7, -1)
SymbolTag(value) ==
  LET shown == SymbolOpen \o value.s \o <<")">>
  IN  TagSymbol \o SubSeq(shown, 8, Len(shown) - 1)

\* lines 108-120
NumberTag(value) ==
  IF value = NegInfinity THEN Str(TagNegInfinity)
  ELSE IF value = Infinity THEN Str(TagInfinity)
  ELSE IF value = NaN THEN Str(TagNaN)
  ELSE value

\* lines 126-131
Summary(h, value) ==
  IF IsArray(h, value)
  THEN Str(SummaryArrayOpen \o NumberToString(Len(h[value.n].fields)) \o SummaryArrayClose)
  ELSE Str(SummaryObject)

\* One call of replace, with `this`: the closure and the heap after it, and
\* what it returns.
replace(this, key, value) ==
  IF key = <<>>
  THEN [keys    |-> <<RootPath>>,
        objects |-> <<[keys |-> RootPath, value |-> value]>>,
        stack   |-> <<>>,
        heap    |-> heap,
        ret     |-> value]
  ELSE
    LET n     == PopCount(stack, this)
        stk   == SubSeq(stack, n + 1, Len(stack))
        ks    == SubSeq(keys, 1, Len(keys) - n)
        found == FindObject(objects, value)
        Return(r) == [keys |-> ks, objects |-> objects, stack |-> stk,
                      heap |-> heap, ret |-> r]
    IN  IF value.t = "regexp" THEN Return(Str(TagRegexp \o value.x \o <<"|">> \o value.s))
        ELSE IF value.t \in {"function", "revived"} THEN Return(Str(FunctionTag(value)))
        ELSE IF value.t = "symbol" THEN Return(Str(SymbolTag(value)))
        ELSE IF value.t = "string" /\ dateFormat(value.s) THEN Return(Str(TagDate \o value.s))
        ELSE IF value = Undefined THEN Return(Str(TagUndefined))
        ELSE IF IsNumber(value) THEN Return(NumberTag(value))
        ELSE IF value.t = "string" THEN Return(value)
        ELSE IF DepthReached(stk, depth) THEN Return(Summary(heap, value))
        ELSE IF found = 0
        THEN LET ks2 == Append(ks, key)
             IN  [keys    |-> ks2,
                  objects |-> Append(objects, [keys |-> Join(ks2, <<".">>), value |-> value]),
                  stack   |-> <<value>> \o stk,
                  heap    |-> AttachConstructorName(heap, value),
                  ret     |-> value]
        ELSE Return(Str(TagDuplicate \o objects[found].keys))

(***************************************************************************)
(* JSON.stringify(data, replace) (line 258): SerializeJSONProperty calls   *)
(* toJSON, then the replacer with the holder as `this`, then writes what   *)
(* the replacer returned.  enc is the tree written so far: a node per      *)
(* container entered, with the input container it was written from (src),  *)
(* the node and key it was written under, and its members in order.  The   *)
(* printed text and its parse keep this tree as it is.                     *)
(***************************************************************************)
DefaultMaxDepth == 10

\* Date.prototype.toJSON runs before the replacer
ToJSON(v) == IF v.t = "date" THEN Str(v.s) ELSE v

\* What is written for the value the replacer returned:
\*   "value" a scalar; "omit" undefined; "empty" an object without enumerable
\*   own properties; "enter" a container to recurse into; "cycle" TypeError
Serialized(ret, frames) ==
  IF ret.t \in {"null", "boolean", "number", "string"} THEN [kind |-> "value", v |-> ret]
  ELSE IF IsNumber(ret) THEN [kind |-> "value", v |-> Null]
  ELSE IF ret.t \in {"undefined", "function", "symbol"} THEN [kind |-> "omit", v |-> Null]
  ELSE IF ret.t \in {"regexp", "date"} THEN [kind |-> "empty", v |-> Null]
  ELSE IF \E i \in 1..Len(frames) : frames[i].node = ret.n THEN [kind |-> "cycle", v |-> Null]
  ELSE [kind |-> "enter", v |-> Null]

EncNode(kind, src, parent, key) ==
  [kind |-> kind, src |-> src, parent |-> parent, key |-> key, fields |-> <<>>]

\* the node written for ret under node parent and key
NewEncNode(w, ret, h, parent, key) ==
  IF w.kind = "enter" THEN EncNode(h[ret.n].kind, ret.n, parent, key)
  ELSE EncNode("obj", 0, parent, key)

Frame(h, ret, out) == [node |-> ret.n, out |-> out, idx |-> 1, n |-> Len(h[ret.n].fields)]

\* leave every container whose properties are all written
RECURSIVE Unwind(_)
Unwind(frames) ==
  IF Len(frames) > 0 /\ frames[Len(frames)].idx > frames[Len(frames)].n
  THEN Unwind(SubSeq(frames, 1, Len(frames) - 1))
  ELSE frames

\* the keys from the root to the container written as node i
RECURSIVE EncPath(_, _)
EncPath(e, i) ==
  IF e[i].parent = 0 THEN <<>> ELSE Append(EncPath(e, e[i].parent), e[i].key)

\* replace was called with value at the key path path
Meet(value, path) ==
  IF value.t = "ref" THEN <<[value |-> value, path |-> path]>> ELSE <<>>

Call(fn, this, key, value, ret, path, depthNow) ==
  [fn |-> fn, this |-> this, key |-> key, value |-> value, ret |-> ret,
   path |-> path, stackLen |-> depthNow]

NoCall == Call("none", Wrapper, <<>>, Undefined, Undefined, <<>>, 0)

\* stringify(data, options): options.maxDepth || 10, and the root call of replace
Stringify(maxDepth) ==
  /\ pc = "idle"
  /\ depth' = IF maxDepth = 0 THEN DefaultMaxDepth ELSE maxDepth
  /\ LET value == ToJSON(data)
         r     == replace(Wrapper, <<>>, value)
         w     == Serialized(r.ret, <<>>)
         fr    == IF w.kind = "enter" THEN Unwind(<<Frame(r.heap, r.ret, 1)>>) ELSE <<>>
     IN  /\ objects' = r.objects
         /\ stack' = r.stack
         /\ keys' = r.keys
         /\ heap' = r.heap
         /\ enc' = IF w.kind \in {"enter", "empty"}
                   THEN <<NewEncNode(w, r.ret, r.heap, 0, <<>>)>> ELSE <<>>
         /\ text' = IF w.kind = "value" THEN w.v
                    ELSE IF w.kind = "omit" THEN Undefined
                    ELSE Ref(1)
         /\ holders' = fr
         /\ pc' = IF fr = <<>> THEN "text" ELSE "stringify"
         /\ lastCall' = Call("replace", Wrapper, <<>>, value, r.ret, <<>>, 0)
         /\ met' = Meet(value, <<>>)
  /\ UNCHANGED <<data, earlier, reviverVars, parseVars, invoked, textVars>>

\* one property of the container being written: one call of replace
ReplaceCall ==
  /\ pc = "stringify"
  /\ LET top   == holders[Len(holders)]
         f     == heap[top.node].fields[top.idx]
         this  == Ref(top.node)
         value == ToJSON(f.v)
         r     == replace(this, f.k, value)
         w     == Serialized(r.ret, holders)
         new   == Len(enc) + 1
         member == IF w.kind = "value" THEN <<[k |-> f.k, v |-> w.v]>>
                   ELSE IF w.kind = "omit"
                   THEN IF heap[top.node].kind = "arr" THEN <<[k |-> f.k, v |-> Null]>>
                        ELSE <<>>
                   ELSE IF w.kind = "cycle" THEN <<>>
                   ELSE <<[k |-> f.k, v |-> Ref(new)]>>
         enc1  == [enc EXCEPT ![top.out].fields = @ \o member]
         step  == [holders EXCEPT ![Len(holders)].idx = @ + 1]
         fr    == Unwind(IF w.kind = "enter"
                         THEN Append(step, Frame(r.heap, r.ret, new)) ELSE step)
     IN  /\ objects' = r.objects
         /\ stack' = r.stack
         /\ keys' = r.keys
         /\ heap' = r.heap
         /\ enc' = IF w.kind \in {"enter", "empty"}
                   THEN Append(enc1, NewEncNode(w, r.ret, r.heap, top.out, f.k))
                   ELSE enc1
         /\ holders' = fr
         /\ pc' = IF w.kind = "cycle" THEN "threw"
                  ELSE IF fr = <<>> THEN "text" ELSE "stringify"
         /\ lastCall' = Call("replace", this, f.k, value, r.ret,
                             [i \in 1..Len(holders) |-> holders[i].node],
                             Len(stack) - PopCount(stack, this))
         /\ met' = met \o Meet(value, Append(EncPath(enc, top.out), f.k))
  /\ UNCHANGED <<data, earlier, depth, text, reviverVars, parseVars, invoked, textVars>>

(***************************************************************************)
(* lodash.get (imported at line 8, called at line 178), for paths without  *)
(* brackets: a path that is a plain property name, or has no dot, or is an *)
(* own key of the object, is one key; any other path is split at its dots. *)
(***************************************************************************)
Letters ==
  {"a", "b", "c", "d", "e", "f", "g", "h", "i", "j", "k", "l", "m", "n", "o", "p",
   "q", "r", "s", "t", "u", "v", "w", "x", "y", "z",
   "A", "B", "C", "D", "E", "F", "G", "H", "I", "J", "K", "L", "M", "N", "O", "P",
   "Q", "R", "S", "T", "U", "V", "W", "X", "Y", "Z"}

IsWordChar(c) == c \in Letters \/ IsDigit(c) \/ c = "_"

\* object[key] for a key of the model: an own property of a container, a
\* character of a string, undefined on every other value
Prop(d, object, key) ==
  IF object.t = "ref" THEN GetField(d[object.n].fields, key)
  ELSE IF object.t = "string" /\ Len(key) = 1 /\ IsDigit(key[1])
  THEN LET i == CHOOSE j \in 1..10 : Digits[j] = key[1]
       IN  IF i <= Len(object.s) THEN Str(<<object.s[i]>>) ELSE Undefined
  ELSE Undefined

\* key in Object(object), for a key with a dot in it
HasOwn(d, object, key) == object.t = "ref" /\ HasKey(d[object.n].fields, key)

isKey(d, path, object) ==
  \/ \A i \in 1..Len(path) : IsWordChar(path[i])
  \/ ~Includes(path, <<".">>)
  \/ HasOwn(d, object, path)

castPath(d, path, object) == IF isKey(d, path, object) THEN <<path>> ELSE Split(path, ".")

RECURSIVE baseGet(_, _, _, _)
baseGet(d, object, path, index) ==
  IF object.t \in {"null", "undefined"} \/ index > Len(path)
  THEN IF index > 1 /\ index = Len(path) + 1 THEN object ELSE Undefined
  ELSE baseGet(d, Prop(d, object, path[index]), path, index + 1)

get(d, object, path) == baseGet(d, object, castPath(d, path, object), 1)

(***************************************************************************)
(* reviver (lines 162-254).                                                *)
(***************************************************************************)
Truthy(v) ==
  /\ v.t \notin {"undefined", "null", "NaN", "absent"}
  /\ v # Bool(FALSE)
  /\ v # Num(0)
  /\ v # Str(<<>>)

\* the text `${name}` gives for a scalar or a plain object
TemplateText(v) ==
  IF v.t = "string" THEN v.s
  ELSE IF v.t = "number" /\ v.n >= 0 THEN NumberToString(v.n)
  ELSE IF v.t = "boolean" THEN IF v.n = 1 THEN <<"t", "r", "u", "e">>
                                ELSE <<"f", "a", "l", "s", "e">>
  ELSE ObjectObject

ReservedWords ==
  {<<"t", "r", "u", "e">>, <<"f", "a", "l", "s", "e">>, <<"n", "u", "l", "l">>}

\* new Function(`return function ${name}(){}`) parses
IsFunctionName(s) ==
  /\ Len(s) > 0
  /\ s[1] \in Letters \cup {"_", "$"}
  /\ \A i \in 2..Len(s) : s[i] \in Letters \cup {"_", "$"} \/ IsDigit(s[i])
  /\ s \notin ReservedWords

\* lines 172-180: every deferred reference in recorded order, each against the
\* tree as the ones before it left it
RECURSIVE RestoreRefs(_, _, _, _)
RestoreRefs(d, rs, i, rt) ==
  IF i > Len(rs) THEN d
  ELSE LET r  == rs[i]
           v  == IF r.replacement = RootPath THEN rt
                 ELSE get(d, rt, ReplaceFirst(r.replacement, RootDot, <<>>))
           d1 == IF r.container.t = "ref"
                 THEN [d EXCEPT ![r.container.n].fields = SetField(@, r.target, v)]
                 ELSE d
       IN  RestoreRefs(d1, rs, i + 1, rt)

\* value.match(/_tag_([^|]*)\|(.*)/) on a string that starts with the tag:
\* the groups, or null when no "|" follows
TagMatch(s, tag) ==
  LET rest == SubSeq(s, Len(tag) + 1, Len(s))
      bar  == IndexOf(rest, <<"|">>)
      tail == SubSeq(rest, bar + 1, Len(rest))
      nl   == {i \in 1..Len(tail) : IsLineTerminator(tail[i])}
      stop == IF nl = {} THEN Len(tail) + 1 ELSE CHOOSE i \in nl : \A j \in nl : i <= j
  IN  [matched |-> bar # 0,
       first   |-> SubSeq(rest, 1, bar - 1),
       second  |-> SubSeq(tail, 1, stop - 1)]

\* One call of revive, with `this`: the closure and the tree after it, what it
\* returns, and whether it threw instead.
revive(this, key, value) ==
  LET rt == IF key = <<>> THEN value ELSE root
      d1 == IF key = <<>> THEN RestoreRefs(dec, refs, 1, value) ELSE dec
      Return(v) == [dec |-> d1, refs |-> refs, root |-> rt, ret |-> v, threw |-> FALSE]
      Throw == [dec |-> d1, refs |-> refs, root |-> rt, ret |-> Undefined, threw |-> TRUE]
      name == IF value.t = "ref" THEN GetField(d1[value.n].fields, CtorKey) ELSE Undefined
      isStr == value.t = "string"
  IN  IF key = CtorKey THEN Return(value)
      ELSE IF IsObject(d1, value) /\ Truthy(name)
      THEN IF name = Str(ObjectName)
           THEN [Return(value) EXCEPT
                   !.dec = [d1 EXCEPT ![value.n].fields = DeleteField(@, CtorKey)]]
           ELSE IF IsFunctionName(TemplateText(name))
           THEN [Return(value) EXCEPT
                   !.dec = [d1 EXCEPT ![value.n].ctor = TemplateText(name),
                                      ![value.n].fields = DeleteField(@, CtorKey)]]
           ELSE Throw
      ELSE IF isStr /\ StartsWith(value.s, TagFunction)
      THEN LET m == TagMatch(value.s, TagFunction)
           IN  IF m.matched THEN Return(Revived(m.first, m.second)) ELSE Throw
      ELSE IF isStr /\ StartsWith(value.s, TagRegexp)
      THEN LET m == TagMatch(value.s, TagRegexp)
           IN  IF m.matched THEN Return(RegExp(m.first, m.second)) ELSE Throw
      ELSE IF isStr /\ StartsWith(value.s, TagDate)
      THEN Return(DateOf(ReplaceFirst(value.s, TagDate, <<>>)))
      ELSE IF isStr /\ StartsWith(value.s, TagDuplicate)
      THEN [Return(Null) EXCEPT
              !.refs = Append(refs, [target      |-> key,
                                     container   |-> this,
                                     replacement |-> ReplaceFirst(value.s, TagDuplicate, <<>>)])]
      ELSE IF isStr /\ StartsWith(value.s, TagSymbol)
      THEN Return(Sym(ReplaceFirst(value.s, TagSymbol, <<>>)))
      ELSE IF value = Str(TagUndefined) THEN Return(Undefined)
      ELSE IF value = Str(TagNegInfinity) THEN Return(NegInfinity)
      ELSE IF value = Str(TagInfinity) THEN Return(Infinity)
      ELSE IF value = Str(TagNaN) THEN Return(NaN)
      ELSE Return(value)

(***************************************************************************)
(* JSON.parse(text, revive) (line 259): InternalizeJSONProperty walks the  *)
(* parsed tree children first, calls the reviver with the holder as `this` *)
(* and writes what it returns into the holder (undefined deletes the key). *)
(* The keys of a container are those it had when the walk entered it.      *)
(***************************************************************************)
DecNode(e) ==
  [kind   |-> e.kind,
   ctor   |-> IF e.kind = "arr" THEN ArrayName ELSE ObjectName,
   src    |-> e.src,
   fields |-> e.fields]

WalkFrame(d, node) == [node |-> node, idx |-> 1, n |-> Len(d[node].fields)]

\* go down to the next property that is not a container
RECURSIVE Descend(_, _)
Descend(d, w) ==
  IF w = <<>> THEN w
  ELSE LET top == w[Len(w)]
       IN  IF top.idx <= top.n /\ d[top.node].fields[top.idx].v.t = "ref"
           THEN Descend(d, Append(w, WalkFrame(d, d[top.node].fields[top.idx].v.n)))
           ELSE w

\* holder[key] = newElement, or delete holder[key] when it is undefined
Stored(v) == IF v = Undefined THEN Absent ELSE v

\* parse(text): JSON.parse(undefined) is a SyntaxError
Parse ==
  /\ pc = "text"
  /\ IF text = Undefined
     THEN /\ pc' = "threw"
          /\ UNCHANGED <<dec, walk, refs, root>>
     ELSE /\ pc' = "parse"
          /\ dec' = [i \in 1..Len(enc) |-> DecNode(enc[i])]
          /\ walk' = IF text.t = "ref" THEN <<WalkFrame(enc, 1)>> ELSE <<>>
          /\ refs' = <<>>
          /\ root' = Undefined
  /\ lastCall' = NoCall
  /\ UNCHANGED <<callerVars, replacerVars, stringifyVars, result, invoked, textVars>>

\* one call of revive: for the next scalar property, or for a container whose
\* properties are all done; the last call is the root's, with key ''
ReviveCall ==
  /\ pc = "parse"
  /\ LET w      == Descend(dec, walk)
         isRoot == Len(w) = 0 \/ (Len(w) = 1 /\ w[1].idx > w[1].n)
         top    == w[Len(w)]
         scalar == ~isRoot /\ top.idx <= top.n
         at     == IF scalar THEN top ELSE w[Len(w) - 1]
         this   == IF isRoot THEN Wrapper ELSE Ref(at.node)
         key    == IF isRoot THEN <<>> ELSE dec[at.node].fields[at.idx].k
         value  == IF isRoot THEN text
                   ELSE IF dec[at.node].fields[at.idx].v = Absent THEN Undefined
                   ELSE dec[at.node].fields[at.idx].v
         r      == revive(this, key, value)
         up     == IF scalar THEN w ELSE SubSeq(w, 1, Len(w) - 1)
     IN  /\ refs' = r.refs
         /\ root' = r.root
         /\ lastCall' = Call("revive", this, key, value, r.ret,
                             [i \in 1..Len(up) |-> up[i].node], 0)
         /\ IF r.threw
            THEN /\ pc' = "threw"
                 /\ UNCHANGED <<dec, walk, result>>
            ELSE IF isRoot
            THEN /\ pc' = "done"
                 /\ dec' = r.dec
                 /\ walk' = <<>>
                 /\ result' = r.ret
            ELSE /\ pc' = "parse"
                 /\ dec' = [r.dec EXCEPT ![at.node].fields[at.idx].v = Stored(r.ret)]
                 /\ walk' = [up EXCEPT ![Len(up)].idx = @ + 1]
                 /\ UNCHANGED result
  /\ UNCHANGED <<callerVars, replacerVars, stringifyVars, invoked, textVars>>

(***************************************************************************)
(* Calling a revived function (lines 204-207): safeEval(`(${source})`) is  *)
(* evaluated and applied, and the arrow function's block returns nothing.  *)
(***************************************************************************)
SourceIdentity == <<"x", "=", ">", "x">>
SourceOne == <<"x", "=", ">", "1">>

\* the sources the model can evaluate
Evaluable == {SourceIdentity, SourceOne, NoopSource}

\* safeEval(`(${source})`)(arg)
safeEval(src, arg) ==
  IF src = SourceIdentity THEN arg
  ELSE IF src = SourceOne THEN Num(1)
  ELSE Undefined

\* result(...args): f(...args) is called and its value dropped
CallRevived(fn, arg) ==
  LET applied == safeEval(fn.s, arg)
  IN  Undefined

\* every value held in the decoded graph
DecodedValues ==
  {result} \cup UNION {{dec[i].fields[j].v : j \in 1..Len(dec[i].fields)} : i \in 1..Len(dec)}

InvokeRevived(arg) ==
  /\ pc = "done"
  /\ \E fn \in DecodedValues :
       /\ fn.t = "revived"
       /\ invoked' = [fn    |-> fn,
                      arg   |-> arg,
                      ret   |-> CallRevived(fn, arg),
                      threw |-> fn.s \notin Evaluable]
  /\ pc' = "called"
  /\ UNCHANGED <<callerVars, replacerVars, stringifyVars, reviverVars, parseVars,
                 lastCall, textVars>>

(***************************************************************************)
(* The values given to stringify: small graphs of every shape (shared and  *)
(* cyclic references, plain and odd keys) holding few kinds of scalar;     *)
(* chains of containers that end in one scalar of every kind under every   *)
(* key; chains that end in a container with a named constructor; chains    *)
(* that end in a reference back into the chain.                            *)
(***************************************************************************)
NumNodes == 3        \* containers of an input graph
MaxFields == 2       \* properties of an input graph, over all its containers
MaxDepthOption == 1  \* options.maxDepth is 1..MaxDepthOption, or not given

KeyA == <<"a">>
KeyEmpty == <<>>
KeyDotted == <<"a", ".", "b">>
IndexKey(i) == NumberToString(i)

GraphKeys == {KeyA, KeyEmpty, KeyDotted}
LeafKeys == GraphKeys \cup {CtorKey}

FooName == <<"F", "o", "o">>

Node(kind, ctor, frozen) == [kind |-> kind, ctor |-> ctor, frozen |-> frozen, fields |-> <<>>]
PlainObject == Node("obj", ObjectName, FALSE)
NamedObject == Node("obj", FooName, FALSE)
FrozenObject == Node("obj", FooName, TRUE)
PlainArray == Node("arr", ArrayName, FALSE)

GraphNodes == {PlainObject, NamedObject, PlainArray}

IsoSeconds ==
  <<"2", "0", "2", "0", "-", "0", "1", "-", "0", "2", "T",
    "0", "3", ":", "0", "4", ":", "0", "5", "Z">>
IsoMillis ==
  <<"2", "0", "2", "0", "-", "0", "1", "-", "0", "2", "T",
    "0", "3", ":", "0", "4", ":", "0", "5", ".", "0", "0", "6", "Z">>
SourceCommented == <<"x", "=", ">", "x", "/", "/", "c">>
SourceNative ==
  <<"f", "u", "n", "c", "t", "i", "o", "n", " ", "f", "(", ")", " ", "{", " ">>
  \o NativeCode \o <<" ", "}">>

GraphScalars == {Null}

LeafScalars ==
  {Undefined, Null, Bool(TRUE), Bool(FALSE), Num(0), Num(1), NaN, Infinity, NegInfinity,
   Str(<<>>), Str(<<"s">>), Str(IsoSeconds), Str(IsoMillis), Str(TagNaN),
   Fn(<<"f">>, SourceIdentity), Fn(<<"g">>, SourceOne), Fn(<<"f">>, SourceCommented),
   Fn(<<"f">>, SourceNative),
   RegExp(<<"g">>, <<"a">>), Sym(<<"d">>), DateOf(IsoMillis)}

EmptyHeap == [i \in 1..NumNodes |-> PlainObject]

\* a graph under construction: its heap and the number of containers in use
Graph(h, used) == [h |-> h, used |-> used]

\* the keys a container can still be given: an array its next index
FreeKeys(node, ks) ==
  IF node.kind = "arr" THEN {IndexKey(Len(node.fields))}
  ELSE {k \in ks : ~HasKey(node.fields, k)}

AddField(g, o, k, v) ==
  Graph([g.h EXCEPT ![o].fields = Append(@, [k |-> k, v |-> v])], g.used)

\* one more property: a scalar, a container already there, or a new container
Extensions(g) ==
  UNION {
    UNION {
      {AddField(g, o, k, v) : v \in GraphScalars \cup {Ref(i) : i \in 1..g.used}}
      \cup
      (IF g.used < NumNodes
       THEN {AddField(Graph([g.h EXCEPT ![g.used + 1] = shape], g.used + 1),
                      o, k, Ref(g.used + 1)) : shape \in GraphNodes}
       ELSE {})
      : k \in FreeKeys(g.h[o], GraphKeys)}
    : o \in 1..g.used}

RECURSIVE GraphsOf(_)
GraphsOf(fields) ==
  IF fields = 0
  THEN {Graph([EmptyHeap EXCEPT ![1] = shape], 1) : shape \in GraphNodes}
  ELSE LET smaller == GraphsOf(fields - 1)
       IN  smaller \cup UNION {Extensions(g) : g \in smaller}

\* containers 1..n: plain objects each holding the next under the key 'a',
\* but for the last, which is held under the key link
Chain(n, last, link) ==
  [i \in 1..NumNodes |->
     IF i < n - 1 THEN [PlainObject EXCEPT !.fields = <<[k |-> KeyA, v |-> Ref(i + 1)]>>]
     ELSE IF i = n - 1 THEN [PlainObject EXCEPT !.fields = <<[k |-> link, v |-> Ref(n)]>>]
     ELSE IF i = n THEN last
     ELSE PlainObject]

\* a chain whose last container holds one scalar, of any kind under any key
LeafGraphs ==
  UNION {
    {Chain(n, [shape EXCEPT !.fields = <<[k |-> k, v |-> v]>>], KeyA) :
       k \in FreeKeys(shape, LeafKeys), v \in LeafScalars}
    : n \in 1..NumNodes, shape \in {PlainObject, PlainArray}}

\* a chain whose last container has a named constructor, held under any key
NamedGraphs ==
  UNION {
    {Chain(n, shape, link),
     Chain(n, [shape EXCEPT !.fields = <<[k |-> KeyA, v |-> Num(1)]>>], link)}
    : n \in 2..NumNodes, shape \in {NamedObject, FrozenObject}, link \in LeafKeys}

\* a chain whose last container holds, under the key 'a', itself or a container
\* above it
CyclicGraphs ==
  UNION {
    {Chain(n, [PlainObject EXCEPT !.fields = <<[k |-> KeyA, v |-> Ref(back)]>>], link) :
       link \in LeafKeys, back \in 1..n}
    : n \in 2..NumNodes}

InputGraphs ==
  {g.h : g \in GraphsOf(MaxFields)} \cup LeafGraphs \cup NamedGraphs \cup CyclicGraphs

(***************************************************************************)
(* The specification of stringify and parse.                               *)
(***************************************************************************)
NoGraph == [held |-> FALSE, graph |-> <<>>]

\* a graph parse returned, as a value given to stringify: the same containers
\* at the same addresses, deleted properties gone, deleted elements holes
AsInput(d) ==
  [i \in 1..Len(d) |->
     [kind   |-> d[i].kind,
      ctor   |-> d[i].ctor,
      frozen |-> FALSE,
      fields |-> IF d[i].kind = "arr"
                 THEN [j \in 1..Len(d[i].fields) |->
                         IF d[i].fields[j].v = Absent
                         THEN [d[i].fields[j] EXCEPT !.v = Undefined]
                         ELSE d[i].fields[j]]
                 ELSE SelectSeq(d[i].fields, LAMBDA f : f.v # Absent)]]

\* the caller gives what parse returned to stringify: stringify(parse(text))
PassResult ==
  /\ pc = "done"
  /\ ~earlier.held
  /\ pc' = "idle"
  /\ data' = result
  /\ heap' = AsInput(dec)
  /\ earlier' = [held |-> TRUE, graph |-> AsInput(dec)]
  /\ UNCHANGED <<replacerVars, stringifyVars, reviverVars, parseVars, lastCall, invoked,
                 textVars>>

NoInvocation == [fn |-> Undefined, arg |-> Undefined, ret |-> Undefined, threw |-> FALSE]

Idle ==
  /\ depth = 0
  /\ objects = <<>>
  /\ stack = <<>>
  /\ keys = <<>>
  /\ holders = <<>>
  /\ enc = <<>>
  /\ text = Undefined
  /\ refs = <<>>
  /\ root = Undefined
  /\ walk = <<>>
  /\ dec = <<>>
  /\ result = Undefined
  /\ lastCall = NoCall
  /\ invoked = NoInvocation
  /\ earlier = NoGraph
  /\ met = <<>>

Init ==
  /\ pc = "idle"
  /\ \/ data = Ref(1) /\ heap \in InputGraphs
     \/ data \in LeafScalars /\ heap = EmptyHeap
  /\ Idle
  /\ source = <<>>
  /\ normal = <<>>
  /\ verdict = "none"

Next ==
  \/ \E maxDepth \in 0..MaxDepthOption : Stringify(maxDepth)
  \/ ReplaceCall
  \/ Parse
  \/ ReviveCall
  \/ \E arg \in {Num(1), Num(2)} : InvokeRevived(arg)
  \/ PassResult

Spec == Init /\ [][Next]_vars

(***************************************************************************)
(* cleanCode applied to a text and then to its own result (the replacer    *)
(* gives it value.toString() of a function, line 88).                      *)
(***************************************************************************)
CodeAlphabet == {"/", "*", "\n", " ", "'", Backtick, "\\", "x"}

InitNormalize ==
  /\ pc = "normalize"
  /\ source \in StringsUpTo(CodeAlphabet, MaxCodeLen)
  /\ normal = <<>>
  /\ verdict = "none"
  /\ data = Undefined
  /\ heap = EmptyHeap
  /\ Idle

\* normal holds cleanCode(source), then cleanCode(cleanCode(source))
CleanCodeCall ==
  /\ pc = "normalize"
  /\ Len(normal) < 2
  /\ normal' = Append(normal, cleanCode(IF normal = <<>> THEN source ELSE normal[Len(normal)]))
  /\ UNCHANGED <<pc, callerVars, replacerVars, stringifyVars, reviverVars, parseVars,
                 lastCall, invoked, source, verdict>>

NextNormalize == CleanCodeCall

SpecNormalize == InitNormalize /\ [][NextNormalize]_vars

(***************************************************************************)
(* removeCodeComments applied to a text (cleanCode calls it, line 55).     *)
(***************************************************************************)
InitStrip ==
  /\ pc = "strip"
  /\ source \in StringsUpTo(CodeAlphabet, MaxCodeLen)
  /\ normal = <<>>
  /\ verdict = "none"
  /\ data = Undefined
  /\ heap = EmptyHeap
  /\ Idle

\* normal holds removeCodeComments(source)
StripCall ==
  /\ pc = "strip"
  /\ normal = <<>>
  /\ normal' = <<removeCodeComments(source)>>
  /\ UNCHANGED <<pc, callerVars, replacerVars, stringifyVars, reviverVars, parseVars,
                 lastCall, invoked, source, verdict>>

NextStrip == StripCall

SpecStrip == InitStrip /\ [][NextStrip]_vars

(***************************************************************************)
(* isJSON(input) (line 256): the match array is truthy, null is not.       *)
(***************************************************************************)
JsonAlphabet == {"[", "{", "\"", "}", "]", " ", "\n", "x"}

InitIsJSON ==
  /\ pc = "isJSON"
  /\ source \in StringsUpTo(JsonAlphabet, MaxJsonLen)
  /\ normal = <<>>
  /\ verdict = "none"
  /\ data = Undefined
  /\ heap = EmptyHeap
  /\ Idle

IsJSONCall ==
  /\ pc = "isJSON"
  /\ verdict = "none"
  /\ verdict' = IF isJSON(source) THEN "match" ELSE "null"
  /\ UNCHANGED <<pc, callerVars, replacerVars, stringifyVars, reviverVars, parseVars,
                 lastCall, invoked, source, normal>>

NextIsJSON == IsJSONCall

SpecIsJSON == InitIsJSON /\ [][NextIsJSON]_vars

(***************************************************************************)
(* Reading the caller's graph and the decoded graph by key paths.          *)
(***************************************************************************)
PathKeys == LeafKeys \cup {IndexKey(i) : i \in 0..(MaxFields - 1)}

\* key paths as long as a walk through every container
Paths == StringsUpTo(PathKeys, NumNodes)

\* the value at a key path from v in the containers h; Absent off the graph
RECURSIVE Follow(_, _, _)
Follow(h, v, path) ==
  IF path = <<>> THEN v
  ELSE IF v.t = "ref" /\ HasKey(h[v.n].fields, Head(path))
  THEN Follow(h, GetField(h[v.n].fields, Head(path)), Tail(path))
  ELSE Absent

\* the key paths of the input that end at a container
ContainerPaths == {p \in Paths : Follow(heap, data, p).t = "ref"}

\* the pairs <<p, n>>: the container at p is the one at its prefix of length n
AncestorHolds ==
  {pn \in ContainerPaths \X (0..NumNodes) :
     /\ pn[2] < Len(pn[1])
     /\ Follow(heap, data, pn[1]) = Follow(heap, data, SubSeq(pn[1], 1, pn[2]))}

Acyclic == AncestorHolds = {}

\* no depth summary can be written: the default depth exceeds every nesting
NoDepthLimit == depth = DefaultMaxDepth

(***************************************************************************)
(* C1  Cycle preservation: where a container of the input holds itself or  *)
(* one of its ancestors (the root included), the decoded graph holds at    *)
(* the same key path the decoded counterpart of that ancestor, found at    *)
(* the ancestor's own key path.  Stated for encodes that reach no depth    *)
(* limit.                                                                  *)
(***************************************************************************)
CyclePreservation ==
  (pc = "done" /\ NoDepthLimit) =>
    \A pn \in AncestorHolds :
      LET here == Follow(dec, result, pn[1])
          anc  == Follow(dec, result, SubSeq(pn[1], 1, pn[2]))
      IN  here.t = "ref" /\ here = anc

(***************************************************************************)
(* C2  Shared-reference preservation: in an acyclic input where two key    *)
(* paths lead to the same container and no depth limit is reached, the     *)
(* decoded graph holds one and the same container at both paths, and it    *)
(* is the one decoded from the shared container.                           *)
(***************************************************************************)
SharedReferencePreservation ==
  (pc = "done" /\ NoDepthLimit /\ Acyclic) =>
    \A p \in ContainerPaths : \A q \in ContainerPaths :
      (p # q /\ Follow(heap, data, p) = Follow(heap, data, q)) =>
        LET dp == Follow(dec, result, p)
            dq == Follow(dec, result, q)
        IN  /\ dp.t = "ref"
            /\ dp = dq
            /\ dec[dp.n].src = Follow(heap, data, p).n

(***************************************************************************)
(* C3  Round trip: a value built from finite numbers, strings that are     *)
(* neither date-shaped nor tagged, booleans, null and plain arrays and     *)
(* objects without cycles, encoded with no depth limit reached, decodes    *)
(* to a structurally equal value.                                          *)
(***************************************************************************)
Tags ==
  {TagRegexp, TagFunction, TagSymbol, TagDate, TagDuplicate, TagUndefined,
   TagNegInfinity, TagInfinity, TagNaN}

PlainScalar(v) ==
  \/ v.t \in {"null", "boolean", "number"}
  \/ v.t = "string" /\ ~dateFormat(v.s) /\ \A tag \in Tags : ~StartsWith(v.s, tag)

PlainInput ==
  /\ Acyclic
  /\ data.t = "ref" \/ PlainScalar(data)
  /\ \A i \in 1..Len(heap) :
       /\ heap[i].ctor \in {ObjectName, ArrayName}
       /\ \A j \in 1..Len(heap[i].fields) :
            heap[i].fields[j].v.t = "ref" \/ PlainScalar(heap[i].fields[j].v)

LiveKeys(fields) == {fields[i].k : i \in {j \in 1..Len(fields) : fields[j].v # Absent}}

\* v of the input and w of the decoded graph are structurally equal
RECURSIVE StructurallyEqual(_, _)
StructurallyEqual(v, w) ==
  IF v.t # "ref" THEN v = w
  ELSE /\ w.t = "ref"
       /\ dec[w.n].kind = heap[v.n].kind
       /\ dec[w.n].ctor = heap[v.n].ctor
       /\ LiveKeys(dec[w.n].fields) = LiveKeys(heap[v.n].fields)
       /\ \A k \in LiveKeys(heap[v.n].fields) :
            StructurallyEqual(GetField(heap[v.n].fields, k), GetField(dec[w.n].fields, k))

RoundTrip ==
  (PlainInput /\ NoDepthLimit) =>
    /\ pc # "threw"
    /\ pc = "done" => StructurallyEqual(data, result)

(***************************************************************************)
(* C4  Depth limit, as the claim words it: a container value is replaced   *)
(* by its summary exactly when the containers on the path from the root to *)
(* it, the root counted, number at least maxDepth.  Stated for inputs that *)
(* name no property ''.                                                    *)
(***************************************************************************)
Summarized(call) == call.ret = Summary(heap, call.value)

\* no property of the input is named ''
NoEmptyKey ==
  \A i \in 1..Len(heap) : \A j \in 1..Len(heap[i].fields) : heap[i].fields[j].k # KeyEmpty

DepthLimitRootCounted ==
  (lastCall.fn = "replace" /\ lastCall.value.t = "ref" /\ NoEmptyKey) =>
    (Summarized(lastCall) <=> Len(lastCall.path) >= depth)

(***************************************************************************)
(* C4  Depth limit, amended: a container value under a key other than ''   *)
(* is replaced by its summary exactly when the ancestor stack, after the   *)
(* popping step, holds at least maxDepth entries; under the key '' it is   *)
(* never summarized.  The stack never holds the root: it holds at most the *)
(* containers on the path from the root to the value without the root, and *)
(* exactly those when no property of the input is named ''.                *)
(***************************************************************************)
DepthLimit ==
  (lastCall.fn = "replace" /\ lastCall.value.t = "ref") =>
    IF lastCall.key = KeyEmpty THEN ~Summarized(lastCall)
    ELSE /\ Summarized(lastCall) <=> lastCall.stackLen >= depth
         /\ lastCall.stackLen <= Len(lastCall.path) - 1
         /\ NoEmptyKey => lastCall.stackLen = Len(lastCall.path) - 1

\* a container summarized with the stack just at the limit
DepthLimitWitness ==
  /\ lastCall.fn = "replace"
  /\ lastCall.value.t = "ref"
  /\ lastCall.key # KeyEmpty
  /\ lastCall.stackLen = depth
  /\ Summarized(lastCall)

(***************************************************************************)
(* C5  Normalizer idempotence: cleanCode applied to its own result gives   *)
(* that result again.                                                      *)
(***************************************************************************)
NormalizerIdempotent ==
  (pc = "normalize" /\ Len(normal) = 2) => normal[2] = normal[1]

(***************************************************************************)
(* C6  Function revival: a revived function reports the name and source of *)
(* a function tag the encoder wrote, and a call of it returns what the     *)
(* function its source denotes returns for the same argument.              *)
(***************************************************************************)
\* every value the encoder wrote
EncodedValues ==
  {text} \cup UNION {{enc[i].fields[j].v : j \in 1..Len(enc[i].fields)} : i \in 1..Len(enc)}

FunctionRevival ==
  pc = "called" =>
    /\ Str(TagFunction \o invoked.fn.x \o <<"|">> \o invoked.fn.s) \in EncodedValues
    /\ ~invoked.threw => invoked.ret = safeEval(invoked.fn.s, invoked.arg)

(***************************************************************************)
(* C7  Unresolvable deferred reference: decode never completes normally    *)
(* with a deferred reference whose path does not resolve against the       *)
(* finished root and whose target key holds null or undefined.             *)
(***************************************************************************)
Unresolved(ref) ==
  /\ ref.replacement # RootPath
  /\ get(dec, result, ReplaceFirst(ref.replacement, RootDot, <<>>)) = Undefined

UnresolvedReferenceFails ==
  pc = "done" =>
    \A i \in 1..Len(refs) :
      ~ /\ Unresolved(refs[i])
        /\ refs[i].container.t = "ref"
        /\ GetField(dec[refs[i].container.n].fields, refs[i].target) \in {Null, Undefined}

(***************************************************************************)
(* C8  isJSON answers true exactly for the texts that, trimmed, start with *)
(* one of [ { " and end with one of ] } ".                                 *)
(***************************************************************************)
LooksLikeJSON(input) ==
  LET trimmed == Trim(input)
  IN  /\ Len(trimmed) > 0
      /\ trimmed[1] \in {"[", "{", "\""}
      /\ trimmed[Len(trimmed)] \in {"]", "}", "\""}

IsJSONHeuristic ==
  (pc = "isJSON" /\ verdict # "none") => (verdict = "match" <=> LooksLikeJSON(source))

(***************************************************************************)
(* C9  Sentinel round trip: at every call but the root's, replace gives    *)
(* undefined, NaN, Infinity and -Infinity their tags and returns every     *)
(* other number and every string that is not date-shaped unchanged, and    *)
(* revive gives each sentinel tag its value.                               *)
(***************************************************************************)
Sentinels == {Undefined, NaN, Infinity, NegInfinity}

SentinelTag(x) ==
  IF x = Undefined THEN TagUndefined
  ELSE IF x = NaN THEN TagNaN
  ELSE IF x = Infinity THEN TagInfinity
  ELSE TagNegInfinity

SentinelRoundTrip ==
  /\ (lastCall.fn = "replace" /\ lastCall.this # Wrapper) =>
       /\ lastCall.value \in Sentinels => lastCall.ret = Str(SentinelTag(lastCall.value))
       /\ (lastCall.value.t = "number"
           \/ (lastCall.value.t = "string" /\ ~dateFormat(lastCall.value.s))) =>
            lastCall.ret = lastCall.value
  /\ (lastCall.fn = "revive" /\ lastCall.this # Wrapper) =>
       \A x \in Sentinels : lastCall.value = Str(SentinelTag(x)) => lastCall.ret = x

(***************************************************************************)
(* C10  Constructor-name round trip, as the claim words it: every mutable  *)
(* container with a constructor name other than 'Object' decodes to an     *)
(* object with that constructor name, and no decoded object keeps the      *)
(* '_constructor-name_' key.                                               *)
(***************************************************************************)
\* the containers written in full whose input has a named constructor
NamedWritten ==
  {i \in 1..Len(enc) :
     /\ enc[i].src # 0
     /\ heap[enc[i].src].ctor # ObjectName
     /\ ~heap[enc[i].src].frozen}

NoCrossCallState ==
  /\ (lastCall.fn = "replace" /\ lastCall.this = Wrapper) =>
       /\ objects = <<[keys |-> RootPath, value |-> lastCall.value]>>
       /\ stack = <<>>
       /\ keys = <<RootPath>>
  /\ (pc = "parse" /\ lastCall = NoCall) => refs = <<>>
  /\ earlier.held => heap = earlier.graph

(***************************************************************************)
(* C12  Visitation invariant: in every state of an encode each container   *)
(* identity appears at most once in the visitation table, recorded under   *)
(* the dotted path of the first call of replace with it, and every later   *)
(* call with that identity returns '_duplicate_<that first path>'.  Stated *)
(* for encodes that reach no depth limit.                                  *)
(***************************************************************************)
\* the first call of replace with the container v in this encode
FirstMet(v) ==
  CHOOSE i \in 1..Len(met) : met[i].value = v /\ \A j \in 1..(i - 1) : met[j].value # v

\* 'root' and the keys of a key path, joined with '.'
DottedPath(path) == Join(<<RootPath>> \o path, <<".">>)

VisitationInvariant ==
  (lastCall.fn = "replace" /\ NoDepthLimit) =>
    /\ \A i, j \in 1..Len(objects) :
         (objects[i].value.t = "ref" /\ objects[i].value = objects[j].value) => i = j
    /\ \A i \in 1..Len(objects) :
         objects[i].value.t = "ref" =>
           objects[i].keys = DottedPath(met[FirstMet(objects[i].value)].path)
    /\ (lastCall.value.t = "ref" /\ FirstMet(lastCall.value) < Len(met)) =>
         lastCall.ret = Str(TagDuplicate \o DottedPath(met[FirstMet(lastCall.value)].path))

(***************************************************************************)
(* C13  Visitation records are kept only for containers: during an encode  *)
(* no boolean, null, number or string is in the visitation table or on the *)
(* ancestor stack, and no call of replace with such a value returns a      *)
(* '_duplicate_' marker.                                                   *)
(***************************************************************************)
Primitive(v) == v.t \in {"boolean", "null", "string"} \/ IsNumber(v)

ContainersOnly ==
  lastCall.fn = "replace" =>
    /\ \A i \in 1..Len(objects) : ~Primitive(objects[i].value)
    /\ \A i \in 1..Len(stack) : ~Primitive(stack[i])
    /\ (Primitive(lastCall.value) /\ lastCall.ret # lastCall.value) =>
         ~(lastCall.ret.t = "string" /\ StartsWith(lastCall.ret.s, TagDuplicate))

(***************************************************************************)
(* C14  Deferred patches are applied only at the final root call of the    *)
(* decode: while the decode is in progress no revive call has assigned     *)
(* into a container, so every position for which a reference was deferred  *)
(* still holds the null that revive returned for it.                       *)
(***************************************************************************)
PatchesAppliedOnce ==
  pc = "parse" =>
    \A i \in 1..Len(refs) :
      refs[i].container.t = "ref" =>
        GetField(dec[refs[i].container.n].fields, refs[i].target) = Null

(***************************************************************************)
(* C15  The encoder state is reset once per encode, at the root call: at   *)
(* every later call of replace the visitation table still has the root     *)
(* value under the path 'root' as its first record, and still holds a      *)
(* record for every container written in full so far.                      *)
(***************************************************************************)
ResetOnce ==
  lastCall.fn = "replace" =>
    /\ objects[1] = [keys |-> RootPath, value |-> ToJSON(data)]
    /\ \A i \in 1..Len(enc) :
         enc[i].src # 0 => \E j \in 1..Len(objects) : objects[j].value = Ref(enc[i].src)

(***************************************************************************)
(* C16  Stack/path lockstep: after the popping step of every call of       *)
(* replace but the root call, the top of the ancestor stack is the current *)
(* container, or the stack is empty and the current container is the root  *)
(* value; in every state of an encode the path list has one more entry     *)
(* than the stack, and joined with '.' it is the key path from the root to *)
(* the container on top of the stack.                                      *)
(***************************************************************************)
\* the stack as the popping step of the last call left it
AfterPopping ==
  IF lastCall.key # KeyEmpty /\ Len(stack) = lastCall.stackLen + 1 THEN Tail(stack)
  ELSE stack

StackPathLockstep ==
  lastCall.fn = "replace" =>
    /\ lastCall.this # Wrapper =>
         IF AfterPopping = <<>> THEN lastCall.this = data
         ELSE AfterPopping[1] = lastCall.this
    /\ Len(keys) = Len(stack) + 1
    /\ IF stack = <<>> THEN keys = <<RootPath>>
       ELSE stack[1].t = "ref" =>
              \E i \in 1..Len(enc) :
                /\ enc[i].src = stack[1].n
                /\ Join(keys, <<".">>) = DottedPath(EncPath(enc, i))

(***************************************************************************)
(* C17  Every '_duplicate_<path>' marker in the encoder's output is        *)
(* resolvable in that output: <path> is 'root' and a key path joined with  *)
(* '.', and that key path leads from the root of the written tree, through *)
(* containers written in full, to the place where the container the marker *)
(* stands for was written in full.                                         *)
(***************************************************************************)
\* the members of the written tree that hold a marker the encoder made
Markers ==
  {m \in UNION {{[node |-> i, at |-> j] : j \in 1..Len(enc[i].fields)} : i \in 1..Len(enc)} :
     LET written == enc[m.node].fields[m.at]
     IN  /\ written.v.t = "string"
         /\ StartsWith(written.v.s, TagDuplicate)
         /\ GetField(heap[enc[m.node].src].fields, written.k) # written.v}

MarkersResolvable ==
  pc = "text" =>
    \A m \in Markers :
      LET written == enc[m.node].fields[m.at]
          standsFor == GetField(heap[enc[m.node].src].fields, written.k)
      IN  \E q \in Paths :
            /\ DottedPath(q) = ReplaceFirst(written.v.s, TagDuplicate, <<>>)
            /\ Follow(enc, Ref(1), q).t = "ref"
            /\ standsFor.t = "ref"
            /\ enc[Follow(enc, Ref(1), q).n].src = standsFor.n

(***************************************************************************)
(* C18  The depth-limit summary applies only to containers: a call of      *)
(* replace with a boolean or null returns the value unchanged at every     *)
(* depth, and never '[Object]' or '[Array(n)]'.                            *)
(***************************************************************************)
SummaryOnlyForContainers ==
  (lastCall.fn = "replace" /\ lastCall.value.t \in {"boolean", "null"}) =>
    /\ lastCall.ret = lastCall.value
    /\ ~Summarized(lastCall)

(***************************************************************************)
(* C19  Comment stripping respects literal boundaries: removeCodeComments  *)
(* drops exactly the characters inside a block comment or a line comment   *)
(* and keeps every character of a quoted string or template literal that   *)
(* opens outside any comment.  Comments and literals are those of the      *)
(* language: a backslash in a literal escapes the next character, a block  *)
(* comment ends at the first '*' '/' after its opening, a line comment     *)
(* before the next newline.  Stated for texts whose literals and block     *)
(* comments are closed and that have no '/' other than in a literal or a   *)
(* comment or opening one.                                                 *)
(***************************************************************************)
\* the positions of code from p on that lie inside a comment, read in mode
\* ("code", a quote character, "block" or "line"), and whether the text is one
\* the statement is about
RECURSIVE Lex(_, _, _, _, _)
Lex(code, p, mode, inside, ok) ==
  LET c == At(code, p)
      n == At(code, p + 1)
  IN  IF p > Len(code)
      THEN [inside |-> inside, ok |-> ok /\ mode \in {"code", "line"}]
      ELSE IF mode = "code"
      THEN IF c \in {"\"", "'", Backtick} THEN Lex(code, p + 1, c, inside, ok)
           ELSE IF c = "/" /\ n = "/" THEN Lex(code, p + 2, "line", inside \cup {p, p + 1}, ok)
           ELSE IF c = "/" /\ n = "*" THEN Lex(code, p + 2, "block", inside \cup {p, p + 1}, ok)
           ELSE Lex(code, p + 1, mode, inside, ok /\ c \notin {"/", "\\"})
      ELSE IF mode = "block"
      THEN IF c = "*" /\ n = "/" THEN Lex(code, p + 2, "code", inside \cup {p, p + 1}, ok)
           ELSE Lex(code, p + 1, mode, inside \cup {p}, ok)
      ELSE IF mode = "line"
      THEN IF c = "\n" THEN Lex(code, p + 1, "code", inside, ok)
           ELSE Lex(code, p + 1, mode, inside \cup {p}, ok)
      ELSE IF c = "\\" THEN Lex(code, p + 2, mode, inside, ok /\ p < Len(code))
      ELSE IF c = mode THEN Lex(code, p + 1, "code", inside, ok)
      ELSE Lex(code, p + 1, mode, inside, ok /\ (c # "\n" \/ mode = Backtick))

CommentsOnly ==
  (pc = "strip" /\ normal # <<>>) =>
    LET lexed == Lex(source, 1, "code", {}, TRUE)
    IN  lexed.ok =>
          normal[1] = Keep(source, {i \in 1..Len(source) : i \notin lexed.inside})

=============================================================================
